---- MODULE Spec2Model ----
(***************************************************************************)
(* A model of platext: the payslip field extractor (IncomeExtractor), its  *)
(* value parsers (clean_num, clean_hours) and the reconciliation engine    *)
(* (IncomeVerificator).                                                    *)
(*                                                                         *)
(* Text.  A Python string is modelled as the sequence of its atoms: a run  *)
(* of letters is one atom ("Sick", "payments") and every other character   *)
(* (a digit, a blank, ":", ",", "/") is an atom of its own, so the string  *)
(* is the concatenation of its atoms.  `needle in hay` is containment of a *)
(* contiguous run of atoms, `a + b` is \o and `a == b` is equality.  The   *)
(* paragraph sign of the two "(..35ba)" labels is written "par".           *)
(*                                                                         *)
(* Values.  A call either returns or raises: a result is a record          *)
(* [err, val] with err = "none" and val = <<v>> for a return of v, and     *)
(* err = the exception's name and val = <<>> for a raise.  Python's None   *)
(* is the empty sequence <<>> and a present number n is <<n>>, so that an  *)
(* optional number is always a sequence of length 0 or 1.                  *)
(***************************************************************************)
EXTENDS Integers, Sequences, FiniteSets, TLC

VARIABLES
    lines,        \* IncomeExtractor.lines: the document, a sequence of lines
    _taxblock,    \* IncomeExtractor._taxblock: the memoized tax block, None until set
    first,        \* accessor name -> result of its first call on this extractor
    last,         \* accessor name -> result of its latest call on this extractor
    call,         \* the accessor called last, and whether it had been called before
    hb,           \* the frame of a running holidayblock call: its locals and result
    token,        \* the argument handed to a value parser
    pout,         \* the value parser called last and its result
    ie,           \* IncomeVerificator.ie: what the extractor's accessors return
    vout          \* the verification method called last and its result

vars == <<lines, _taxblock, first, last, call, hb, token, pout, ie, vout>>

---------------------------------------------------------------------------
(* Results and optional values *)

None == <<>>

Some(n) == <<n>>

Ok(v) == [err |-> "none", val |-> <<v>>]

Raise(e) == [err |-> e, val |-> <<>>]

Unset == [err |-> "unset", val |-> <<>>]

IsOk(r) == r.err = "none"

ValueOf(r) == r.val[1]

---------------------------------------------------------------------------
(* Python string primitives over sequences of atoms *)

Digits == {"0", "1", "2", "3", "4", "5", "6", "7", "8", "9"}

DigitVal(c) ==
    CASE c = "0" -> 0 [] c = "1" -> 1 [] c = "2" -> 2 [] c = "3" -> 3
      [] c = "4" -> 4 [] c = "5" -> 5 [] c = "6" -> 6 [] c = "7" -> 7
      [] c = "8" -> 8 [] c = "9" -> 9

AllDigits(s) == \A i \in 1..Len(s) : s[i] \in Digits

\* the number a run of decimal digits denotes (0 for the empty run)
RECURSIVE DigitsToNat(_)
DigitsToNat(s) ==
    IF s = <<>> THEN 0
    ELSE 10 * DigitsToNat(SubSeq(s, 1, Len(s) - 1)) + DigitVal(s[Len(s)])

\* str.replace(old, new) for a one-atom old and a new of zero or one atoms
RECURSIVE Replace(_, _, _)
Replace(s, old, new) ==
    IF s = <<>> THEN <<>>
    ELSE (IF Head(s) = old THEN new ELSE <<Head(s)>>) \o Replace(Tail(s), old, new)

\* str.split(sep)[0]: everything before the first sep, the whole string without one
RECURSIVE SplitFirst(_, _)
SplitFirst(s, sep) ==
    IF s = <<>> THEN <<>>
    ELSE IF Head(s) = sep THEN <<>>
    ELSE <<Head(s)>> \o SplitFirst(Tail(s), sep)

\* str.strip() of blanks, as int() and float() apply it to their argument
RECURSIVE LStrip(_)
LStrip(s) == IF s # <<>> /\ Head(s) = " " THEN LStrip(Tail(s)) ELSE s

RECURSIVE RStrip(_)
RStrip(s) ==
    IF s # <<>> /\ s[Len(s)] = " " THEN RStrip(SubSeq(s, 1, Len(s) - 1)) ELSE s

Strip(s) == RStrip(LStrip(s))

IsSign(c) == c \in {"+", "-"}

Unsigned(s) == IF s # <<>> /\ IsSign(s[1]) THEN Tail(s) ELSE s

SignOf(s) == IF s # <<>> /\ s[1] = "-" THEN -1 ELSE 1

\* int(text): blanks stripped, an optional sign, then one or more decimal digits
PyInt(s) ==
    LET body == Unsigned(Strip(s))
    IN  IF body # <<>> /\ AllDigits(body)
        THEN Ok(SignOf(Strip(s)) * DigitsToNat(body))
        ELSE Raise("ValueError")

\* round() of the non-negative decimal whole.frac: to the nearest integer, a tie
\* (frac = 5000...) to the even neighbour
RoundHalfEven(whole, frac) ==
    LET w    == DigitsToNat(whole)
        d    == IF frac = <<>> THEN 0 ELSE DigitVal(frac[1])
        rest == IF frac = <<>> THEN 0 ELSE DigitsToNat(Tail(frac))
    IN  IF d > 5 \/ (d = 5 /\ rest > 0) THEN w + 1
        ELSE IF d = 5 /\ w % 2 = 1 THEN w + 1
        ELSE w

\* round(float(text)) for a decimal literal: blanks stripped, an optional sign,
\* digits with at most one point and at least one digit.  (Exponents, "inf" and
\* "nan" need letters, which no numeric token of the model holds.)
PyRoundFloat(s) ==
    LET t     == Strip(s)
        body  == Unsigned(t)
        whole == SplitFirst(body, ".")
        frac  == IF Len(whole) = Len(body) THEN <<>>
                 ELSE SubSeq(body, Len(whole) + 2, Len(body))
    IN  IF /\ AllDigits(whole)
           /\ AllDigits(frac)
           /\ Len(whole) + Len(frac) > 0
        THEN Ok(SignOf(t) * RoundHalfEven(whole, frac))
        ELSE Raise("ValueError")

---------------------------------------------------------------------------
(* common.py: the value parsers *)

clean_num(text) == PyRoundFloat(Replace(Replace(text, " ", <<>>), ",", <<".">>))

clean_hours(text) == PyInt(SplitFirst(text, ":"))

---------------------------------------------------------------------------
(* platext.py: the anchor texts.  A letter run is one atom; every other    *)
(* character (digit, punctuation, blank) is an atom of its own.            *)

TEXT_TELEFON == <<"Telefon", ":", " ", "2", "2", "5", " ", "3", "3", "5", " ", "1", "2", "6">>

TEXT_SICK == <<"Sick", " ", "payments">>

TEXT_11 == <<"1", "/", "1">>

TEXT_BASE == <<"Base", " ", "salary">>

TEXT_NET == <<"Net", " ", "salary">>

TEXT_HOURS == <<"Working", " ", "hours">>

TEXT_VACATION_PAY == <<"vacation", " ", "pay">>

TEXT_HOLIDAY_BALANCE == <<"Holiday", " ", "balance">>

TEXT_ILLNESS == <<"Illness">>

TEXT_TAX_BASE == <<"Tax", " ", "base">>

TEXT_AVERAGE_EARNINGS == <<"Average", " ", "earnings">>

TEXT_TAX_ADVANCE == <<"Tax", " ", "advance">>

TEXT_TAX_RELIEF == <<"Tax", " ", "relief", "(", "par", "3", "5", "ba", ")">>

TEXT_TAX_AFTER_RELIEF == <<"Tax", " ", "after", " ", "relief", " ", "(", "par", "3", "5", "ba", ")">>

TEXT_TAX_INCOME == <<"Tax", " ", "withheld">>

TEXT_TAX_ANNUAL == <<"Annual", " ", "Tax", " ", "Reconciliation">>

TEXT_TAX_SOCIAL == <<"Social", " ", "security">>

TEXT_TAX_HEALTH == <<"Health", " ", "insurance">>

TEXT_TAX_RELIEF_TP == <<"Tax", " ", "relief", " ", "-", " ", "taxpayer">>

TEXT_TAX_MEALS == <<"Deduction", " ", "-", " ", "meals">>

TEXT_TAX_TRAVEL == <<"Travel", " ", "Expenses">>

taxblock_fields ==
    << TEXT_TAX_ADVANCE, TEXT_TAX_RELIEF, TEXT_TAX_AFTER_RELIEF, TEXT_TAX_INCOME,
       TEXT_TAX_ANNUAL, TEXT_TAX_SOCIAL, TEXT_TAX_HEALTH, TEXT_TAX_RELIEF_TP,
       TEXT_TAX_MEALS, TEXT_TAX_TRAVEL >>

---------------------------------------------------------------------------
(* Python list primitives.  Indices are Python's: 0-based, and a negative  *)
(* index counts from the end of the list.                                  *)

\* `needle in hay` for two strings
Contains(needle, hay) ==
    \E k \in 0..(Len(hay) - Len(needle)) :
        \A j \in 1..Len(needle) : hay[k + j] = needle[j]

\* hay.startswith(prefix), the shape of re.match on a literal pattern
StartsWith(hay, prefix) ==
    /\ Len(prefix) <= Len(hay)
    /\ \A j \in 1..Len(prefix) : hay[j] = prefix[j]

\* an indexing that reads the last element for an index past the end
PyIndexClamped(seq, i) ==
    IF 0 <= i /\ i < Len(seq) THEN Ok(seq[i + 1])
    ELSE IF i < 0 /\ -i <= Len(seq) THEN Ok(seq[Len(seq) + i + 1])
    ELSE IF Len(seq) > 0 THEN Ok(seq[Len(seq)])
    ELSE Raise("IndexError")

\* seq[i]
PyIndex(seq, i) ==
    IF 0 <= i /\ i < Len(seq) THEN Ok(seq[i + 1])
    ELSE IF i < 0 /\ -i <= Len(seq) THEN Ok(seq[Len(seq) + i + 1])
    ELSE Raise("IndexError")

\* the position a slice bound denotes in a list of length n
SliceBound(b, n) ==
    IF b < 0 THEN (IF b + n < 0 THEN 0 ELSE b + n)
    ELSE (IF b > n THEN n ELSE b)

\* seq[a:b]
PySlice(seq, a, b) ==
    LET lo == SliceBound(a, Len(seq))
        hi == SliceBound(b, Len(seq))
    IN  IF lo < hi THEN SubSeq(seq, lo + 1, hi) ELSE <<>>

\* [''] * n
Blanks(n) == [i \in 1..(IF n > 0 THEN n ELSE 0) |-> <<>>]

Min(a, b) == IF a < b THEN a ELSE b

---------------------------------------------------------------------------
(* IncomeExtractor: anchor lookup and the field locator *)

\* index_in: the first line holding needle, KeyError without one
index_in(doc, needle) ==
    LET hits == {i \in 0..(Len(doc) - 1) : Contains(needle, doc[i + 1])}
    IN  IF hits = {} THEN Raise("KeyError")
        ELSE Ok(CHOOSE i \in hits : \A j \in hits : i <= j)

\* isin: 1 when index_in returns, 0 when it raises
isin(doc, text) == IF IsOk(index_in(doc, text)) THEN 1 ELSE 0

\* ''.join(self.lines[anchor + shift] for shift in shifts)
RECURSIVE JoinShifted(_, _, _)
JoinShifted(doc, anchor, shifts) ==
    IF shifts = <<>> THEN Ok(<<>>)
    ELSE LET line == PyIndex(doc, anchor + Head(shifts))
             rest == JoinShifted(doc, anchor, Tail(shifts))
         IN  IF ~IsOk(line) THEN line
             ELSE IF ~IsOk(rest) THEN rest
             ELSE Ok(ValueOf(line) \o ValueOf(rest))

find_shifted_list(doc, anchortext, shifts) ==
    LET anchor == index_in(doc, anchortext)
    IN  IF ~IsOk(anchor) THEN anchor
        ELSE LET text == JoinShifted(doc, ValueOf(anchor), shifts)
             IN  IF ~IsOk(text) THEN text ELSE clean_num(ValueOf(text))

find_shifted(doc, anchortext, shift) == find_shifted_list(doc, anchortext, <<shift>>)

find_shifted_hours(doc, anchortext, shift) ==
    LET ind == index_in(doc, anchortext)
    IN  IF ~IsOk(ind) THEN ind
        ELSE LET line == PyIndex(doc, ValueOf(ind) + shift)
             IN  IF ~IsOk(line) THEN line
                 ELSE PyInt(SplitFirst(ValueOf(line), ":"))

base(doc) == find_shifted(doc, TEXT_BASE, 4)

bank(doc) == find_shifted(doc, TEXT_11, -2 - 2 * isin(doc, TEXT_TELEFON))

gross(doc) == find_shifted(doc, TEXT_NET, -3)

net(doc) == find_shifted(doc, TEXT_SICK, -2)

hours_exepected(doc) == find_shifted_hours(doc, TEXT_HOURS, 4)

hours_worked(doc) == find_shifted_hours(doc, TEXT_HOURS, 5)

---------------------------------------------------------------------------
(* IncomeExtractor: the tax block *)

\* exception_may: is the sick-pay anchor above the social-security label
exception_may(doc) ==
    LET sick   == index_in(doc, TEXT_SICK)
        social == index_in(doc, TEXT_TAX_SOCIAL)
    IN  IF ~IsOk(sick) THEN sick
        ELSE IF ~IsOk(social) THEN social
        ELSE Ok(ValueOf(sick) < ValueOf(social))

taxblock_keys(doc) == SelectSeq(taxblock_fields, LAMBDA field : isin(doc, field) = 1)

variable_number(doc) == Len(taxblock_keys(doc))

\* the loop over zip(keys, variables_1, variables_2): the dict built from rows
\* 1..n, an ordered sequence of <<key, amount>> pairs, or the ValueError of the
\* first row that does not parse
RECURSIVE ZipRows(_, _, _, _)
ZipRows(keys, variables_1, variables_2, n) ==
    IF n = 0 THEN Ok(<<>>)
    ELSE LET before == ZipRows(keys, variables_1, variables_2, n - 1)
             amount == clean_num(variables_1[n] \o variables_2[n])
         IN  IF ~IsOk(before) THEN before
             ELSE IF ~IsOk(amount) THEN Raise("ValueError")
             ELSE Ok(Append(ValueOf(before), <<keys[n], ValueOf(amount)>>))

\* taxblock past the memo check: lines 264-289
ComputeTaxblock(doc) ==
    LET keys     == taxblock_keys(doc)
        varnum   == variable_number(doc)
        ind_sick == index_in(doc, TEXT_SICK)
        ind_11   == index_in(doc, TEXT_11)
        may      == exception_may(doc)
    IN  IF ~IsOk(ind_sick) THEN ind_sick
        ELSE IF ~IsOk(ind_11) THEN ind_11
        ELSE IF ~IsOk(may) THEN may
        ELSE LET ind_var1 == IF ValueOf(may) THEN ValueOf(ind_sick) + 19
                             ELSE ValueOf(ind_sick) + 6 + isin(doc, TEXT_TAX_ANNUAL)
                 ind_var2 == ValueOf(ind_11) - 3 - isin(doc, TEXT_TELEFON) * 2 - varnum
                 slice_1  == PySlice(doc, ind_var1, ind_var2)
                 variables_2 == PySlice(doc, ind_var2, ind_var2 + varnum)
                 variables_1 == slice_1 \o Blanks(Len(variables_2) - Len(slice_1))
                 rows     == Min(Len(keys), Min(Len(variables_1), Len(variables_2)))
             IN  ZipRows(keys, variables_1, variables_2, rows)

\* `if _taxblock:` -- a memo that is set and is not the empty dict
MemoHit(memo) == memo # None /\ memo[1] # <<>>

\* a store made one row early: the dict without the row inserted last
MemoStoreBeforeLastRow(d) == Some(SubSeq(d, 1, Len(d) - 1))

\* what `self._taxblock = d` stores
MemoStore(d) == Some(d)

\* lines 290-291: the computed dict d is stored and returned; a raise leaves
\* the memo as it was
StoreAndReturn(d, memo) ==
    IF IsOk(d) THEN [ret |-> d, memo |-> MemoStore(ValueOf(d))]
    ELSE [ret |-> d, memo |-> memo]

\* taxblock: the value returned and the memo left behind
taxblock(doc, memo) ==
    IF MemoHit(memo) THEN [ret |-> Ok(memo[1]), memo |-> memo]
    ELSE StoreAndReturn(ComputeTaxblock(doc), memo)

\* dict.get(key): the amount stored under key, None without one
DictGet(d, key) ==
    LET hits == {i \in 1..Len(d) : d[i][1] = key}
    IN  IF hits = {} THEN None ELSE Some(d[CHOOSE i \in hits : TRUE][2])

\* .get(label) on what taxblock returned, t
GetOf(t, label) ==
    [ret  |-> IF IsOk(t.ret) THEN Ok(DictGet(ValueOf(t.ret), label)) ELSE t.ret,
     memo |-> t.memo]

\* tax_advance, tax_relief, ... : self.taxblock.get(label)
tax_get(doc, memo, label) == GetOf(taxblock(doc, memo), label)

---------------------------------------------------------------------------
(* IncomeExtractor: the holiday block *)

\* re.compile("^Holiday [\d,]+d").match(line)
re_holiday(line) ==
    /\ StartsWith(line, <<"Holiday", " ">>)
    /\ \E n \in 1..(Len(line) - 3) :
        /\ \A j \in 1..n : line[2 + j] \in Digits \cup {","}
        /\ line[3 + n] = "d"

\* re.compile("^Omluv.*").match(line); the letter runs that begin with "Omluv"
re_unpaid(line) == line # <<>> /\ line[1] \in {"Omluv", "Omluvena"}

\* re.compile("^Base salary").match(line)
re_base_salary(line) == StartsWith(line, <<"Base", " ", "salary">>)

\* re.compile("^Bonus CZK").match(line)
re_bonus(line) == StartsWith(line, <<"Bonus", " ", "CZK">>)

\* re.compile("^Summer vacation pay").match(line)
re_vacation_pay(line) == StartsWith(line, <<"Summer", " ", "vacation", " ", "pay">>)

\* any(regex.match(line) for regex in self.res_holidays)
res_holidays(line) ==
    \/ re_holiday(line)
    \/ re_unpaid(line)
    \/ re_base_salary(line)
    \/ re_bonus(line)
    \/ re_vacation_pay(line)

\* any(regex.match(line) for regex in self.res_bonuses)
res_bonuses(line) == re_bonus(line) \/ re_vacation_pay(line)

\* list(zip(desclist, hourlist, cashlist))
Zip3(desclist, hourlist, cashlist) ==
    [j \in 1..Min(Len(desclist), Min(Len(hourlist), Len(cashlist)))
        |-> <<desclist[j], hourlist[j], cashlist[j]>>]

\* the hours Variant B puts in place of the column it does not print
FakeHours == <<"0", ":", "0", "fake">>

\* the frame of holidayblock: where it stands (pc), its locals, the indices of
\* self.lines it has read, and its result once it is done
Frame(pc, ind_base, i, desclist, hourlist, cashlist, reads, ret) ==
    [pc |-> pc, ind_base |-> ind_base, i |-> i, desclist |-> desclist,
     hourlist |-> hourlist, cashlist |-> cashlist, reads |-> reads, ret |-> ret]

IdleFrame == Frame("idle", 0, 0, <<>>, <<>>, <<>>, {}, Unset)

\* the frame of a call that raised or returned
Done(f, reads, ret) ==
    Frame("done", f.ind_base, f.i, f.desclist, f.hourlist, f.cashlist, reads, ret)

\* lines 187-191 and 198: find the block and pick the layout
HolidayEnter(doc, f) ==
    LET illness == index_in(doc, TEXT_ILLNESS)
    IN  IF ~IsOk(illness) THEN Done(f, {}, illness)
        ELSE
        LET ind_base == ValueOf(illness) + 1
            line     == PyIndex(doc, ind_base)
        IN  IF ~IsOk(line) THEN Done(f, {}, line)
            ELSE IF ValueOf(line) # TEXT_BASE
            THEN LET tax_base == index_in(doc, TEXT_TAX_BASE)
                 IN  IF ~IsOk(tax_base) THEN Done(f, {ind_base}, tax_base)
                     ELSE Frame("while", ValueOf(tax_base) + 2, ValueOf(tax_base) + 2,
                                <<>>, <<>>, <<>>, {ind_base}, Unset)
            ELSE Frame("for", ind_base, ind_base, <<>>, <<>>, <<>>, {ind_base}, Unset)

\* lines 192-196: one test of the while loop of Variant B, and its body
WhileStep(doc, f) ==
    LET line == PyIndex(doc, f.i)
    IN  IF ~IsOk(line) THEN Done(f, f.reads, line)
        ELSE IF ~res_holidays(ValueOf(line))
        THEN Done(f, f.reads \cup {f.i}, Ok(Zip3(f.desclist, f.hourlist, f.cashlist)))
        ELSE LET cash == PyIndex(doc, f.i + 2)
             IN  IF ~IsOk(cash) THEN Done(f, f.reads \cup {f.i}, cash)
                 ELSE Frame("while", f.ind_base, f.i + 4,
                            Append(f.desclist, ValueOf(line)),
                            Append(f.hourlist, FakeHours),
                            Append(f.cashlist, ValueOf(cash)),
                            f.reads \cup {f.i, f.i + 2}, Unset)

\* lines 202-221: Variant A once the run is measured
AfterFor(doc, f) ==
    LET holiday_lines == f.i - f.ind_base
        ind_hol == index_in(doc, TEXT_HOLIDAY_BALANCE)
        ind_adv == index_in(doc, TEXT_TAX_ADVANCE)
    IN  IF ~IsOk(ind_hol) THEN ind_hol
        ELSE IF ~IsOk(ind_adv) THEN ind_adv
        ELSE LET desc_start  == f.ind_base
                 hours_start == ValueOf(ind_hol) + 3 + holiday_lines
                 cash_start  == ValueOf(ind_adv) - holiday_lines - 1
             IN  Ok(Zip3(PySlice(doc, desc_start, desc_start + holiday_lines),
                         PySlice(doc, hours_start, hours_start + holiday_lines),
                         PySlice(doc, cash_start, cash_start + holiday_lines)))

\* lines 198-200: one round of the for loop of Variant A
ForStep(doc, f) ==
    LET line == PyIndex(doc, f.i)
    IN  IF ~IsOk(line) THEN Done(f, f.reads, line)
        ELSE IF ~res_holidays(ValueOf(line))
        THEN Done(f, f.reads \cup {f.i}, AfterFor(doc, f))
        ELSE Frame("for", f.ind_base, f.i + 1, <<>>, <<>>, <<>>,
                   f.reads \cup {f.i}, Unset)

---------------------------------------------------------------------------
(* IncomeExtractor: what is summed over the holiday block *)

\* the sum of a sequence of numbers
RECURSIVE Sum(_)
Sum(ns) == IF ns = <<>> THEN 0 ELSE Head(ns) + Sum(Tail(ns))

\* a list built from results: the values, or the first raise
RECURSIVE Collect(_)
Collect(results) ==
    IF results = <<>> THEN Ok(<<>>)
    ELSE LET rest == Collect(Tail(results))
         IN  IF ~IsOk(Head(results)) THEN Head(results)
             ELSE IF ~IsOk(rest) THEN rest
             ELSE Ok(<<ValueOf(Head(results))>> \o ValueOf(rest))

\* hours_holiday_list: the hours of the entries "Holiday <days>d"
hours_holiday_list(holidayblock) ==
    LET picked == SelectSeq(holidayblock, LAMBDA e : re_holiday(e[1]))
    IN  Collect([j \in 1..Len(picked) |-> clean_hours(picked[j][2])])

\* a sum over every entry of the block, whatever its kind
BonusesOfAllEntries(holidayblock) ==
    LET amounts == Collect([j \in 1..Len(holidayblock) |-> clean_num(holidayblock[j][3])])
    IN  IF IsOk(amounts) THEN Ok(Sum(ValueOf(amounts))) ELSE amounts

\* bonuses: the amounts of the bonus and vacation-pay entries, summed
bonuses(holidayblock) ==
    LET picked  == SelectSeq(holidayblock, LAMBDA e : res_bonuses(e[1]))
        amounts == Collect([j \in 1..Len(picked) |-> clean_num(picked[j][3])])
    IN  IF IsOk(amounts) THEN Ok(Sum(ValueOf(amounts))) ELSE amounts

---------------------------------------------------------------------------
(* IncomeVerificator.  Its factors are decimal fractions; the model keeps  *)
(* them as integers over 100 or 1000 and computes exactly.  (For the       *)
(* amounts of the model the code's floating-point products are exact too.) *)

daily_meal == 80

\* meal_contribution = 0.45
meal_contribution_pct == 45

\* factor_supergross = 1.34
factor_supergross_pct == 134

\* factor_tax_income = 0.15
factor_tax_income_pct == 15

\* factor_tax_social = 0.065
factor_tax_social_pm == 65

\* factor_tax_health = 0.045
factor_tax_health_pm == 45

tax_relief == 2070

\* math.ceil(n / d) for d > 0
Ceil(n, d) == -((-n) \div d)

\* round(n / d) for d > 0: to the nearest integer, a tie to the even neighbour
Round(n, d) ==
    LET q == n \div d
        r == n % d
    IN  IF 2 * r > d THEN q + 1
        ELSE IF 2 * r = d /\ q % 2 = 1 THEN q + 1
        ELSE q

\* `x if x else 0` for an optional amount
OrZero(x) == IF x # None /\ x[1] # 0 THEN x[1] ELSE 0

\* a (category, claimed, calculated) triple; claimed may be None
Triple(name, claimed, calculated) ==
    [name |-> name, claimed |-> claimed, calculated |-> calculated]

\* the accessors tax_advance .. tax_recon of the extractor e
TaxOf(e, label) == DictGet(e.taxblock, label)

\* verify_gross
verify_gross(e) ==
    LET hours == hours_holiday_list(e.holidayblock)
        bonus == bonuses(e.holidayblock)
    IN  IF ~IsOk(hours) THEN hours
        ELSE IF e.hours_exepected = 0 THEN Raise("ZeroDivisionError")
        ELSE IF ~IsOk(bonus) THEN bonus
        ELSE LET money == ValueOf(hours)
                 holiday_money ==
                     Sum([j \in 1..Len(money) |-> Round(money[j] * e.average_earnings, 100)])
                 my_gross ==
                     Round(e.hours_worked * e.base
                             + (holiday_money + ValueOf(bonus)) * e.hours_exepected,
                           e.hours_exepected)
             IN  Ok(Triple("Gross", Some(e.gross), my_gross))

\* verify_tax_income_raw
verify_tax_income_raw(e) ==
    LET supergross    == 100 * Ceil(e.gross * factor_supergross_pct, 100 * 100)
        my_tax_income == (supergross * factor_tax_income_pct) \div 100
    IN  Ok(Triple("Tax-advance", TaxOf(e, TEXT_TAX_ADVANCE), my_tax_income))

\* verify_tax_income_relief
verify_tax_income_relief(e) ==
    LET advance == TaxOf(e, TEXT_TAX_ADVANCE)
    IN  IF advance = None THEN Raise("TypeError")
        ELSE Ok(Triple("Tax-income", TaxOf(e, TEXT_TAX_INCOME), advance[1] - tax_relief))

\* verify_tax_social
verify_tax_social(e) ==
    Ok(Triple("Tax-social", TaxOf(e, TEXT_TAX_SOCIAL),
              Ceil(e.gross * factor_tax_social_pm, 1000)))

\* verify_tax_health
verify_tax_health(e) ==
    Ok(Triple("Tax-health", TaxOf(e, TEXT_TAX_HEALTH),
              Ceil(e.gross * factor_tax_health_pm, 1000)))

\* verify_meal
verify_meal(e) ==
    LET eligible_days == Ceil(e.hours_worked - 8 * e.state_holidays_workdays, 8)
        should_meal   == eligible_days * daily_meal
        my_contrib    == (should_meal * meal_contribution_pct) \div 100
    IN  Ok(Triple("Meal contrib.", TaxOf(e, TEXT_TAX_MEALS), my_contrib))

\* a net that also takes the travel expenses off
verify_net_less_travel(e) ==
    LET income == TaxOf(e, TEXT_TAX_INCOME)
        social == TaxOf(e, TEXT_TAX_SOCIAL)
        health == TaxOf(e, TEXT_TAX_HEALTH)
    IN  IF income = None \/ social = None \/ health = None THEN Raise("TypeError")
        ELSE Ok(Triple("Net", Some(e.net),
                       e.gross - (income[1] + social[1] + health[1]
                                    + OrZero(TaxOf(e, TEXT_TAX_ANNUAL)))
                               - OrZero(TaxOf(e, TEXT_TAX_TRAVEL))))

\* verify_net
verify_net(e) ==
    LET recon  == OrZero(TaxOf(e, TEXT_TAX_ANNUAL))
        income == TaxOf(e, TEXT_TAX_INCOME)
        social == TaxOf(e, TEXT_TAX_SOCIAL)
        health == TaxOf(e, TEXT_TAX_HEALTH)
    IN  IF income = None \/ social = None \/ health = None THEN Raise("TypeError")
        ELSE LET taxes == income[1] + social[1] + health[1] + recon
             IN  Ok(Triple("Net", Some(e.net), e.gross - taxes))

\* verify_bank
verify_bank(e) ==
    LET tax_travel == OrZero(TaxOf(e, TEXT_TAX_TRAVEL))
        tax_meal   == TaxOf(e, TEXT_TAX_MEALS)
    IN  IF tax_meal = None THEN Raise("TypeError")
        ELSE Ok(Triple("Bank", Some(e.bank), e.net - tax_meal[1] - tax_travel))

\* verify_taxes
verify_taxes(e) ==
    Collect(<< verify_tax_income_raw(e), verify_tax_income_relief(e),
               verify_tax_social(e), verify_tax_health(e) >>)

\* a row whose difference is taken the other way round
PrintableWithDifferenceReversed(result) ==
    IF result.claimed = None THEN Raise("TypeError")
    ELSE LET err_msg == IF result.name \in {"Meal contrib."} THEN "WARN" ELSE "FAIL"
             equal   == result.claimed[1] = result.calculated
         IN  Ok([name |-> result.name,
                 status |-> IF equal THEN "OK" ELSE err_msg,
                 difference |-> IF equal THEN None
                                ELSE Some(result.calculated - result.claimed[1]),
                 claimed |-> result.claimed,
                 calculated |-> result.calculated])

\* _verification_tuple_to_printable: a claimed None is unequal to every number,
\* and None - calculated raises
verification_tuple_to_printable(result) ==
    IF result.claimed = None THEN Raise("TypeError")
    ELSE LET err_msg == IF result.name \in {"Meal contrib."} THEN "WARN" ELSE "FAIL"
             equal   == result.claimed[1] = result.calculated
         IN  Ok([name |-> result.name,
                 status |-> IF equal THEN "OK" ELSE err_msg,
                 difference |-> IF equal THEN None
                                ELSE Some(result.claimed[1] - result.calculated),
                 claimed |-> result.claimed,
                 calculated |-> result.calculated])

\* verify_warnings: the warning printed, "missing" or "more" days of meal
\* tickets, or none
verify_warnings(e) ==
    LET meal == ValueOf(verify_meal(e))
    IN  IF meal.claimed = None THEN Raise("TypeError")
        ELSE LET difference == meal.claimed[1] - meal.calculated
                 per_day    == meal_contribution_pct * daily_meal
                 \* days = -difference / (meal_contribution * daily_meal), kept over per_day / 100
                 nearest    == Round(-difference * 100, per_day)
                 off        == -difference * 100 - nearest * per_day
                 close      == 10 * (IF off < 0 THEN -off ELSE off) < 4 * per_day
                 sign       == IF close THEN nearest ELSE -difference
             IN  Ok(IF sign > 0 THEN "missing" ELSE IF sign < 0 THEN "more" ELSE "none")

\* verify (assumptions = False): the table printed and the warning, or the raise
verify(e) ==
    LET first4  == Collect(<< verify_gross(e), verify_net(e), verify_meal(e), verify_bank(e) >>)
        taxes   == verify_taxes(e)
    IN  IF ~IsOk(first4) THEN first4
        ELSE IF ~IsOk(taxes) THEN taxes
        ELSE LET results == ValueOf(first4) \o ValueOf(taxes)
                 table   == Collect([j \in 1..Len(results) |->
                                        verification_tuple_to_printable(results[j])])
                 warning == verify_warnings(e)
             IN  IF ~IsOk(table) THEN table
                 ELSE IF ~IsOk(warning) THEN warning
                 ELSE Ok([table |-> ValueOf(table), warning |-> ValueOf(warning)])

---------------------------------------------------------------------------
(* The documents the extractor is run on *)

\* the labels a payslip's tax block is varied over: the first MaxPool of PoolOrder
MaxPool == 3

\* lines of padding before and after the anchors of a short document
MaxPad == 3

Range(f) == {f[i] : i \in DOMAIN f}

DigitChar(d) == CHOOSE c \in Digits : DigitVal(c) = d

\* the decimal digits of n, one atom each
RECURSIVE Num(_)
Num(n) == IF n < 10 THEN <<DigitChar(n)>> ELSE Num(n \div 10) \o <<DigitChar(n % 10)>>

Empty == <<>>

Repeat(line, n) == [i \in 1..n |-> line]

PoolOrder ==
    << TEXT_TAX_SOCIAL, TEXT_TAX_TRAVEL, TEXT_TAX_ANNUAL, TEXT_TAX_MEALS,
       TEXT_TAX_HEALTH, TEXT_TAX_INCOME, TEXT_TAX_ADVANCE, TEXT_TAX_RELIEF,
       TEXT_TAX_AFTER_RELIEF, TEXT_TAX_RELIEF_TP >>

\* the sets of labels present: every subset of the pool (the empty one
\* included), and all ten labels
LabelSets ==
    (SUBSET {PoolOrder[i] : i \in 1..Min(MaxPool, Len(PoolOrder))})
        \cup {Range(taxblock_fields)}

\* A payslip whose tax block lists the labels of S.  The gross stands three
\* lines above 'Net salary', the expected and worked hours four and five lines
\* below 'Working hours', the net two lines above 'Sick payments', the bank
\* transfer two lines (four with the 'Telefon' header) above '1/1', and the
\* amounts of the tax block end three lines (five) above '1/1'.  With may the
\* labels follow 'Sick payments' and each amount is split over two columns;
\* without, the labels precede it and the left column is empty.
Payslip(S, tel, may) ==
    LET labels == SelectSeq(taxblock_fields, LAMBDA f : f \in S)
        k      == Len(labels)
        annual == IF TEXT_TAX_ANNUAL \in S THEN 1 ELSE 0
        head   == << Num(29000), Empty, Empty, TEXT_NET,
                     TEXT_HOURS, Empty, Empty, Empty,
                     <<"1", "6", "0", ":", "0", "0">>, <<"1", "5", "2", ":", "0", "0">> >>
        sick   == << <<"2", "1", " ", "8", "0", "9">>, Empty, TEXT_SICK >>
        col1   == IF may THEN Repeat(<<"1">>, k) ELSE <<>>
        col2   == [j \in 1..k |-> Num(200 + j)]
        tail   == << Empty, Num(20000) >>
                    \o (IF tel THEN << TEXT_TELEFON, Empty >> ELSE <<>>)
                    \o << Empty, TEXT_11 >>
    IN  IF may
        THEN head \o sick \o labels \o Repeat(Empty, 18 - k) \o col1 \o col2 \o tail
        ELSE head \o labels \o sick \o Repeat(Empty, 5 + annual) \o col1 \o col2 \o tail

\* A text that opens with its anchors: p amounts, the four anchors, q amounts
ShortDoc(p, q) ==
    [j \in 1..p |-> Num(300 + j)]
        \o << TEXT_NET, TEXT_TAX_SOCIAL, TEXT_SICK, TEXT_11 >>
        \o [j \in 1..q |-> Num(400 + j)]

Documents ==
    {Payslip(S, tel, may) : S \in LabelSets, tel \in BOOLEAN, may \in BOOLEAN}
        \cup {ShortDoc(p, q) : p \in 0..MaxPad, q \in 0..MaxPad}

---------------------------------------------------------------------------
(* The extractor as a state machine: construction, then accessor calls in  *)
(* any order, any number of times                                          *)

Accessors == {"taxblock", "tax_social", "tax_travel", "gross", "hours_worked"}

NoCall == [name |-> "none", again |-> FALSE]

NoOutput == [name |-> "none", ret |-> Unset]

\* the variables of the parts that are not running
AccessorsIdle ==
    /\ _taxblock = None
    /\ first = [a \in Accessors |-> Unset]
    /\ last = [a \in Accessors |-> Unset]
    /\ call = NoCall

HolidayIdle == hb = IdleFrame

ParserIdle == token = <<>> /\ pout = NoOutput

VerificatorIdle == ie = <<>> /\ vout = NoOutput

Init ==
    /\ lines \in Documents
    /\ _taxblock = None
    /\ first = [a \in Accessors |-> Unset]
    /\ last = [a \in Accessors |-> Unset]
    /\ call = NoCall
    /\ HolidayIdle
    /\ ParserIdle
    /\ VerificatorIdle

\* the bookkeeping of a call of accessor a that returned or raised ret
Record(a, ret) ==
    /\ first' = IF first[a] = Unset THEN [first EXCEPT ![a] = ret] ELSE first
    /\ last' = [last EXCEPT ![a] = ret]
    /\ call' = [name |-> a, again |-> first[a] # Unset]
    /\ UNCHANGED <<lines, hb, token, pout, ie, vout>>

\* a call of accessor a that went through taxblock and ended as t
RecordTaxblock(a, t) ==
    /\ _taxblock' = t.memo
    /\ Record(a, t.ret)

CallTaxblock == RecordTaxblock("taxblock", taxblock(lines, _taxblock))

CallTaxSocial == RecordTaxblock("tax_social", tax_get(lines, _taxblock, TEXT_TAX_SOCIAL))

CallTaxTravel == RecordTaxblock("tax_travel", tax_get(lines, _taxblock, TEXT_TAX_TRAVEL))

CallGross ==
    /\ UNCHANGED _taxblock
    /\ Record("gross", gross(lines))

CallHoursWorked ==
    /\ UNCHANGED _taxblock
    /\ Record("hours_worked", hours_worked(lines))

Next ==
    \/ CallTaxblock
    \/ CallTaxSocial
    \/ CallTaxTravel
    \/ CallGross
    \/ CallHoursWorked

Spec == Init /\ [][Next]_vars

---------------------------------------------------------------------------
(* Claims about the extractor, checked under Spec *)

\* the labels that occur in some line of the document
PresentLabels(doc) ==
    {f \in Range(taxblock_fields) : \E i \in 1..Len(doc) : Contains(f, doc[i])}

Keys(d) == {d[i][1] : i \in 1..Len(d)}

\* the document holds the sick-pay and the bank anchor, and the k rows that end
\* three lines (five with the 'Telefon' header) above the bank anchor all lie
\* below the sick-pay anchor
HasTaxRegion(doc) ==
    LET sick == index_in(doc, TEXT_SICK)
        b11  == index_in(doc, TEXT_11)
    IN  /\ IsOk(sick)
        /\ IsOk(b11)
        /\ ValueOf(b11) - 3 - 2 * isin(doc, TEXT_TELEFON) - Cardinality(PresentLabels(doc))
               > ValueOf(sick)

\* C1: on a document in which exactly the labels of S occur (S any subset of the
\* ten labels, the empty set included) and whose tax region holds a row per
\* label, taxblock returns a mapping with exactly |S| entries, keyed by S.
C1_TaxblockKeyedByPresentLabels ==
    LET r == last["taxblock"]
        S == PresentLabels(lines)
    IN  (r # Unset /\ HasTaxRegion(lines)) =>
            /\ IsOk(r)
            /\ Len(ValueOf(r)) = Cardinality(S)
            /\ Keys(ValueOf(r)) = S

\* C5: every call of an accessor returns what the first call of that accessor
\* on the same extractor returned, whatever was called in between and whether or
\* not the tax block was memoized (an empty tax block is never memoized).
C5_AccessorsIdempotent == \A a \in Accessors : last[a] = first[a]

\* C5's case: taxblock is called again after tax_social was called, and is
\* answered from the memo
C5_Witness ==
    /\ call = [name |-> "taxblock", again |-> TRUE]
    /\ MemoHit(_taxblock)
    /\ first["tax_social"] # Unset
    /\ IsOk(last["taxblock"])

\* C8: whenever taxblock returns normally, its mapping has as many entries as
\* recognized labels are present in the document; a variable region with fewer
\* rows makes it fail.
C8_TaxblockNeverTruncates ==
    IsOk(last["taxblock"]) => Len(ValueOf(last["taxblock"])) = variable_number(lines)

\* the line anchor + shift does not exist: the index is outside [0, len)
TargetOutside(doc, anchortext, shift) ==
    LET a == index_in(doc, anchortext)
    IN  /\ IsOk(a)
        /\ (ValueOf(a) + shift < 0 \/ ValueOf(a) + shift >= Len(doc))

\* C9: resolving a field whose target line anchor + offset lies outside
\* [0, number of lines) fails; no value is read from another line.
C9_OutOfRangeTargetFails ==
    /\ (last["gross"] # Unset /\ TargetOutside(lines, TEXT_NET, -3))
           => ~IsOk(last["gross"])
    /\ (last["hours_worked"] # Unset /\ TargetOutside(lines, TEXT_HOURS, 5))
           => ~IsOk(last["hours_worked"])

---------------------------------------------------------------------------
(* The value parsers as a state machine: a token, then calls of the parsers *)

\* the longest token enumerated atom by atom
MaxTokenLen == 3

TokenAtoms == {"0", "1", "6", ":", ",", " ", "fake"}

RECURSIVE SeqsUpTo(_, _)
SeqsUpTo(S, n) ==
    IF n = 0 THEN {<<>>}
    ELSE LET shorter == SeqsUpTo(S, n - 1)
         IN  shorter \cup {Append(t, c) : t \in shorter, c \in S}

Tokens ==
    SeqsUpTo(TokenAtoms, MaxTokenLen)
        \cup { <<"1", "6", "0", ":", "0", "0", "fake">>, <<"1", "6", "0">>,
               <<"1", "2", " ", "3", "4", "5", ",", "0", "0">> }

InitParse ==
    /\ token \in Tokens
    /\ pout = NoOutput
    /\ lines = <<>>
    /\ AccessorsIdle
    /\ HolidayIdle
    /\ VerificatorIdle

CallCleanHours ==
    /\ pout' = [name |-> "clean_hours", ret |-> clean_hours(token)]
    /\ UNCHANGED <<lines, _taxblock, first, last, call, hb, token, ie, vout>>

CallCleanNum ==
    /\ pout' = [name |-> "clean_num", ret |-> clean_num(token)]
    /\ UNCHANGED <<lines, _taxblock, first, last, call, hb, token, ie, vout>>

NextParse ==
    \/ CallCleanHours
    \/ CallCleanNum

SpecParse == InitParse /\ [][NextParse]_vars

\* C4: clean_hours returns the integer written before the first colon of the
\* token, and fails for every token that holds no colon (a token of digits only,
\* such as "160", included).
C4_NoColonIsParseError ==
    LET hasColon == \E i \in 1..Len(token) : token[i] = ":"
    IN  (pout.name = "clean_hours" /\ ~hasColon) => ~IsOk(pout.ret)

---------------------------------------------------------------------------
(* holidayblock as a state machine: one step per loop round *)

\* the longest run of lines enumerated after the marker of a holiday block
MaxBody == 5

HolidayLine == <<"Holiday", " ", "2", "d">>

BodyLines == {TEXT_BASE, HolidayLine, Num(100)}

\* Texts around a holiday block: the 'Illness' marker and then body (Variant A
\* when body opens with 'Base salary'), or the 'Tax base' marker and body two
\* lines below it (Variant B); closed texts go on with the two anchors that
\* Variant A looks up, open ones end with the body.
HolidayDocs ==
    LET closing == { <<>>, <<TEXT_HOLIDAY_BALANCE, TEXT_TAX_ADVANCE>> }
        bodies  == SeqsUpTo(BodyLines, MaxBody)
    IN  {<<TEXT_ILLNESS>> \o body \o c : body \in bodies, c \in closing}
            \cup {<<TEXT_ILLNESS, Empty, TEXT_TAX_BASE, Empty>> \o body \o c :
                    body \in bodies, c \in closing}

MaxRun == 3

\* A text in Variant A as the payslips print it: the run of descs after
\* 'Illness' and the line that ends it, 'Holiday balance' with the block of
\* 2 + n lines that stands before the hours column, the n hours, the n amounts,
\* and 'Tax advance' one line below the last amount
LayoutA(descs) ==
    LET n == Len(descs)
    IN  <<TEXT_ILLNESS>> \o descs \o <<Num(100), TEXT_HOLIDAY_BALANCE>>
            \o Repeat(Empty, 2 + n)
            \o [j \in 1..n |-> <<DigitChar(j), ":", "0", "0">>]
            \o [j \in 1..n |-> Num(500 + j)]
            \o <<Empty, TEXT_TAX_ADVANCE>>

LayoutADocs ==
    {LayoutA(<<TEXT_BASE>> \o rest) : rest \in SeqsUpTo({HolidayLine, TEXT_BASE}, MaxRun - 1)}

InitHoliday ==
    /\ lines \in HolidayDocs \cup LayoutADocs
    /\ hb = IdleFrame
    /\ AccessorsIdle
    /\ ParserIdle
    /\ VerificatorIdle

HolidayFrame == UNCHANGED <<lines, _taxblock, first, last, call, token, pout, ie, vout>>

\* the call of holidayblock, up to the first loop test
HolidayCall ==
    /\ hb.pc = "idle"
    /\ hb' = HolidayEnter(lines, hb)
    /\ HolidayFrame

\* a round of Variant B's while loop
HolidayWhile ==
    /\ hb.pc = "while"
    /\ hb' = WhileStep(lines, hb)
    /\ HolidayFrame

\* a round of Variant A's for loop
HolidayFor ==
    /\ hb.pc = "for"
    /\ hb' = ForStep(lines, hb)
    /\ HolidayFrame

NextHoliday ==
    \/ HolidayCall
    \/ HolidayWhile
    \/ HolidayFor

\* a called method runs on until it returns or raises
SpecHoliday == InitHoliday /\ [][NextHoliday]_vars /\ WF_vars(NextHoliday)

\* the document is in Variant A: the line after 'Illness' is 'Base salary'
IsVariantA(doc) ==
    LET illness == index_in(doc, TEXT_ILLNESS)
    IN  /\ IsOk(illness)
        /\ ValueOf(illness) + 1 < Len(doc)
        /\ doc[ValueOf(illness) + 2] = TEXT_BASE

\* the document is in Variant B: another line follows 'Illness', and the
\* 'Tax base' marker is present
IsVariantB(doc) ==
    LET illness == index_in(doc, TEXT_ILLNESS)
    IN  /\ IsOk(illness)
        /\ ValueOf(illness) + 1 < Len(doc)
        /\ doc[ValueOf(illness) + 2] # TEXT_BASE
        /\ IsOk(index_in(doc, TEXT_TAX_BASE))

\* where the scan of the document starts, and its stride
ScanStart(doc) ==
    IF IsVariantA(doc) THEN ValueOf(index_in(doc, TEXT_ILLNESS)) + 1
    ELSE ValueOf(index_in(doc, TEXT_TAX_BASE)) + 2

ScanStride(doc) == IF IsVariantA(doc) THEN 1 ELSE 4

\* the lines start, start + stride, ... up to the end of doc all match one of
\* the five classification patterns
RunsToEnd(doc, start, stride) ==
    \A j \in start..(Len(doc) - 1) :
        (j - start) % stride = 0 => res_holidays(doc[j + 1])

ReadsInBounds == \A j \in hb.reads : 0 <= j /\ j < Len(lines)

RunToEndRaises ==
    ( /\ hb.pc = "done"
      /\ IsVariantA(lines) \/ IsVariantB(lines)
      /\ RunsToEnd(lines, ScanStart(lines), ScanStride(lines)) )
        => ~IsOk(hb.ret)

\* C10: on every finite document holidayblock terminates, in both layouts; its
\* scans read only indices below the length of the document, and when the
\* scanned lines match to the end of the document it ends with an error, not
\* with a result.
C10_HolidayblockTerminates ==
    /\ []ReadsInBounds
    /\ []RunToEndRaises
    /\ <>(hb.pc = "done")

\* C10's case: a scan of Variant B that took two rounds and ran off the end of
\* the document
C10_Witness ==
    /\ hb.pc = "done"
    /\ IsVariantB(lines)
    /\ Len(hb.desclist) >= 1
    /\ RunsToEnd(lines, ScanStart(lines), ScanStride(lines))
    /\ hb.ret = Raise("IndexError")

\* the length of the run of lines from start that match one of the five
\* classification patterns, in a doc where the run ends before the doc does
RunLength(doc, start) ==
    CHOOSE k \in 0..(Len(doc) - start) :
        /\ \A j \in 0..(k - 1) : res_holidays(doc[start + j + 1])
        /\ start + k < Len(doc) => ~res_holidays(doc[start + k + 1])

\* index j of doc is a line of doc
InDoc(doc, j) == 0 <= j /\ j < Len(doc)

\* entries is the n rows of the three columns of doc that start at desc_start,
\* hours_start and cash_start, every row read inside the document
ColumnsPaired(doc, entries, n, desc_start, hours_start, cash_start) ==
    /\ Len(entries) = n
    /\ \A j \in 0..(n - 1) :
         /\ InDoc(doc, desc_start + j) /\ InDoc(doc, hours_start + j) /\ InDoc(doc, cash_start + j)
         /\ entries[j + 1] = << doc[desc_start + j + 1], doc[hours_start + j + 1],
                               doc[cash_start + j + 1] >>

\* C11: in Variant A, with n the length of the run of classified lines from
\* ind_base, holidayblock returns exactly n entries, and entry j is the triple
\* (lines[ind_base + j], lines[index_in('Holiday balance') + 3 + n + j],
\* lines[index_in('Tax advance') - n - 1 + j]); the result is never shorter
\* than n because a column slice was cut by the bounds of the document.
C11_VariantAPairsColumns ==
    (hb.pc = "done" /\ IsVariantA(lines) /\ IsOk(hb.ret)) =>
        ColumnsPaired(lines, ValueOf(hb.ret), RunLength(lines, ScanStart(lines)),
                      ScanStart(lines),
                      ValueOf(index_in(lines, TEXT_HOLIDAY_BALANCE)) + 3
                          + RunLength(lines, ScanStart(lines)),
                      ValueOf(index_in(lines, TEXT_TAX_ADVANCE))
                          - RunLength(lines, ScanStart(lines)) - 1)

\* a printed payslip of three entries, on which the columns are paired
C11_PairedOnPrintedLayout ==
    /\ hb.pc = "done"
    /\ lines = LayoutA(<<TEXT_BASE, HolidayLine, HolidayLine>>)
    /\ hb.ret = Ok(<< <<TEXT_BASE, <<"1", ":", "0", "0">>, Num(501)>>,
                      <<HolidayLine, <<"2", ":", "0", "0">>, Num(502)>>,
                      <<HolidayLine, <<"3", ":", "0", "0">>, Num(503)>> >>)

---------------------------------------------------------------------------
(* The verificator, run on the values an extractor hands it.  ie holds the *)
(* values of the extractor's accessors: the amounts, the entries of the    *)
(* holiday block as holidayblock returned them, the average earnings in    *)
(* hundredths, and the tax block as taxblock returned it.                  *)

MaxEntries == 1

\* an entry of the holiday block: description, hours, money
BaseEntry == <<TEXT_BASE, <<"1", "6", "0", ":", "0", "0">>, <<"3", "0", " ", "0", "0", "0">>>>

HolidayEntry == <<HolidayLine, <<"8", ":", "0", "0">>, <<"1", " ", "5", "0", "0">>>>

BonusEntry == <<<<"Bonus", " ", "CZK">>, FakeHours, <<"1", " ", "0", "0", "0">>>>

HolidayBlocks == SeqsUpTo({BaseEntry, HolidayEntry, BonusEntry}, MaxEntries)

\* the tax block of a payslip that prints the optional rows in present
TaxBlockOf(present) ==
    LET amount == [label \in Range(taxblock_fields) |->
                     IF label = TEXT_TAX_ADVANCE THEN 6030
                     ELSE IF label = TEXT_TAX_INCOME THEN 3960
                     ELSE IF label = TEXT_TAX_ANNUAL THEN -500
                     ELSE IF label = TEXT_TAX_SOCIAL THEN 1950
                     ELSE IF label = TEXT_TAX_HEALTH THEN 1350
                     ELSE IF label = TEXT_TAX_MEALS THEN 720
                     ELSE IF label = TEXT_TAX_TRAVEL THEN 300
                     ELSE 0]
        rows   == SelectSeq(taxblock_fields, LAMBDA label : label \in present)
    IN  [j \in 1..Len(rows) |-> <<rows[j], amount[rows[j]]>>]

OptionalRows ==
    {TEXT_TAX_ADVANCE, TEXT_TAX_INCOME, TEXT_TAX_ANNUAL, TEXT_TAX_MEALS, TEXT_TAX_TRAVEL}

TaxBlocks ==
    {TaxBlockOf({TEXT_TAX_SOCIAL, TEXT_TAX_HEALTH} \cup S) : S \in SUBSET OptionalRows}

\* expected and worked hours
Hours == {<<160, 160>>, <<168, 168>>, <<160, 152>>}

Extractors ==
    {[base |-> 30000, bank |-> 21720, gross |-> g, net |-> 22740,
      hours_exepected |-> h[1], hours_worked |-> h[2],
      holidayblock |-> b, average_earnings |-> 18750,
      taxblock |-> t, state_holidays_workdays |-> 0] :
        g \in {30000, 29000}, h \in Hours, b \in HolidayBlocks, t \in TaxBlocks}

InitVerify ==
    /\ ie \in Extractors
    /\ vout = NoOutput
    /\ lines = <<>>
    /\ AccessorsIdle
    /\ HolidayIdle
    /\ ParserIdle

VerifyFrame == UNCHANGED <<lines, _taxblock, first, last, call, hb, token, pout, ie>>

CallVerifyGross ==
    /\ vout' = [name |-> "verify_gross", ret |-> verify_gross(ie)]
    /\ VerifyFrame

CallVerifyNet ==
    /\ vout' = [name |-> "verify_net", ret |-> verify_net(ie)]
    /\ VerifyFrame

CallVerifyMeal ==
    /\ vout' = [name |-> "verify_meal", ret |-> verify_meal(ie)]
    /\ VerifyFrame

CallVerifyBank ==
    /\ vout' = [name |-> "verify_bank", ret |-> verify_bank(ie)]
    /\ VerifyFrame

CallVerifyTaxes ==
    /\ vout' = [name |-> "verify_taxes", ret |-> verify_taxes(ie)]
    /\ VerifyFrame

CallVerifyWarnings ==
    /\ vout' = [name |-> "verify_warnings", ret |-> verify_warnings(ie)]
    /\ VerifyFrame

CallVerify ==
    /\ vout' = [name |-> "verify", ret |-> verify(ie)]
    /\ VerifyFrame

NextVerify ==
    \/ CallVerifyGross
    \/ CallVerifyNet
    \/ CallVerifyMeal
    \/ CallVerifyBank
    \/ CallVerifyTaxes
    \/ CallVerifyWarnings
    \/ CallVerify

SpecVerify == InitVerify /\ [][NextVerify]_vars

\* the triples a completed run of verify classified, in the order of the table
Classified(e) ==
    << ValueOf(verify_gross(e)), ValueOf(verify_net(e)), ValueOf(verify_meal(e)),
       ValueOf(verify_bank(e)) >> \o ValueOf(verify_taxes(e))

\* the row the classification owes to a triple
RowOwed(t, row) ==
    /\ row.name = t.name
    /\ row.claimed = t.claimed
    /\ row.calculated = t.calculated
    /\ t.claimed = Some(t.calculated) => row.status = "OK" /\ row.difference = None
    /\ t.claimed # Some(t.calculated) =>
         /\ row.status = (IF t.name = "Meal contrib." THEN "WARN" ELSE "FAIL")
         /\ t.claimed # None
         /\ row.difference = Some(t.claimed[1] - t.calculated)

\* C2: every triple of a verification run is classified OK with no difference
\* when claimed equals calculated; when they are unequal it is WARN for
\* 'Meal contrib.' and FAIL for every other category, with difference
\* claimed - calculated.
C2_Classification ==
    (vout.name = "verify" /\ IsOk(vout.ret)) =>
        LET table == ValueOf(vout.ret).table
        IN  /\ Len(table) = Len(Classified(ie))
            /\ \A j \in 1..Len(table) : RowOwed(Classified(ie)[j], table[j])

\* C2's case: a table with an OK row, a FAIL row and the WARN row of the meals
C2_Witness ==
    /\ vout.name = "verify"
    /\ IsOk(vout.ret)
    /\ \E j \in 1..8 : ValueOf(vout.ret).table[j].status = "OK"
    /\ \E j \in 1..8 :
         /\ ValueOf(vout.ret).table[j].status = "FAIL"
         /\ ValueOf(vout.ret).table[j].difference = Some(-1000)
    /\ ValueOf(vout.ret).table[3].status = "WARN"
    /\ ValueOf(vout.ret).table[3].difference = Some(36)

\* C3: when a tax category is absent from the tax block, every formula that
\* uses it puts zero in its place and completes with a record: no call of
\* the verificator raises for an absent category.
C3_AbsentCategoryIsZero ==
    vout.name # "none" => vout.ret.err # "TypeError"

\* the rows of the tax block that the formulas of net and bank read
TaxesOfNet(e) == {TaxOf(e, TEXT_TAX_INCOME), TaxOf(e, TEXT_TAX_SOCIAL), TaxOf(e, TEXT_TAX_HEALTH)}

\* C6: the calculated net is gross less income tax, social and health
\* insurance and the annual reconciliation when present, and never less the
\* travel expenses; the calculated bank transfer is net less the meal
\* contribution and the travel expenses when present.
C6_NetExcludesTravel ==
    /\ (vout.name = "verify_net" /\ None \notin TaxesOfNet(ie)) =>
         /\ IsOk(vout.ret)
         /\ ValueOf(vout.ret).name = "Net"
         /\ ValueOf(vout.ret).claimed = Some(ie.net)
         /\ ValueOf(vout.ret).calculated =
              ie.gross - ( TaxOf(ie, TEXT_TAX_INCOME)[1] + TaxOf(ie, TEXT_TAX_SOCIAL)[1]
                             + TaxOf(ie, TEXT_TAX_HEALTH)[1]
                             + (IF TaxOf(ie, TEXT_TAX_ANNUAL) # None
                                THEN TaxOf(ie, TEXT_TAX_ANNUAL)[1] ELSE 0) )
    /\ (vout.name = "verify_bank" /\ TaxOf(ie, TEXT_TAX_MEALS) # None) =>
         /\ IsOk(vout.ret)
         /\ ValueOf(vout.ret).name = "Bank"
         /\ ValueOf(vout.ret).claimed = Some(ie.bank)
         /\ ValueOf(vout.ret).calculated =
              ie.net - TaxOf(ie, TEXT_TAX_MEALS)[1]
                     - (IF TaxOf(ie, TEXT_TAX_TRAVEL) # None
                        THEN TaxOf(ie, TEXT_TAX_TRAVEL)[1] ELSE 0)
    /\ (vout.name = "verify" /\ IsOk(vout.ret)) =>
         /\ ValueOf(vout.ret).table[2].calculated = ValueOf(verify_net(ie)).calculated
         /\ ValueOf(vout.ret).table[4].calculated = ValueOf(verify_bank(ie)).calculated

\* C6's case: a payslip with travel expenses whose bank value accounts for
\* them: the Net record and the Bank record are both OK
C6_Witness ==
    /\ vout.name = "verify"
    /\ IsOk(vout.ret)
    /\ TaxOf(ie, TEXT_TAX_TRAVEL) = Some(300)
    /\ ValueOf(vout.ret).table[2].name = "Net"
    /\ ValueOf(vout.ret).table[2].status = "OK"
    /\ ValueOf(vout.ret).table[4].name = "Bank"
    /\ ValueOf(vout.ret).table[4].status = "OK"
    /\ ValueOf(vout.ret).table[4].calculated = ie.net - 720 - 300

\* worked hours equal the expected hours, not zero, and the holiday block has
\* no holiday entry with a day count and no bonus or vacation-pay entry
PlainMonth(e) ==
    /\ e.hours_worked = e.hours_exepected
    /\ e.hours_exepected # 0
    /\ \A j \in 1..Len(e.holidayblock) :
         ~re_holiday(e.holidayblock[j][1]) /\ ~res_bonuses(e.holidayblock[j][1])

\* C7: in a month of full hours with no holiday and no bonus entries the
\* calculated gross is the base salary, and when the claimed gross is the base
\* the Gross record is OK with no difference.
C7_PlainMonthGrossIsBase ==
    /\ (vout.name = "verify_gross" /\ PlainMonth(ie)) =>
         /\ IsOk(vout.ret)
         /\ ValueOf(vout.ret).calculated = ie.base
    /\ (vout.name = "verify" /\ IsOk(vout.ret) /\ PlainMonth(ie)) =>
         /\ ValueOf(vout.ret).table[1].name = "Gross"
         /\ ValueOf(vout.ret).table[1].calculated = ie.base
         /\ ie.gross = ie.base =>
              /\ ValueOf(vout.ret).table[1].status = "OK"
              /\ ValueOf(vout.ret).table[1].difference = None

\* C7's case: base 30000, 160 of 160 hours, a block of one base-salary entry,
\* and a claimed gross of 30000
C7_Witness ==
    /\ vout.name = "verify"
    /\ IsOk(vout.ret)
    /\ PlainMonth(ie)
    /\ ie.holidayblock = <<BaseEntry>>
    /\ ie.base = 30000 /\ ie.gross = 30000
    /\ ie.hours_worked = 160
    /\ ValueOf(vout.ret).table[1].status = "OK"

====
